---- MODULE Spec2Model ----
(***************************************************************************)
(* Model of ml_agents: the smolagents -> crewai tool adapter               *)
(* (compat.create_tool_from_smolagents) and the console logger factory     *)
(* (utils.create_simple_logger, utils.set_logger_level_to_all_local).      *)
(*                                                                         *)
(* Python values are modelled as follows.  An optional attribute is a      *)
(* sequence of length 0 (absent) or 1 (present).  A dict is a function     *)
(* (inputs) or, where insertion order matters (args_fields), a sequence of *)
(* entries with distinct names.  The outcome of a call is a record that    *)
(* either carries the raised exception or the returned value.              *)
(***************************************************************************)
EXTENDS Integers, Sequences, FiniteSets, TLC

\* Longest parameter list of a foreign forward callable that is enumerated.
MaxParams == 2
\* Number of adapter calls in one behaviour.
MaxCalls == 3

VARIABLES
    tools,        \* the foreign tool objects that exist: id -> object
    last,         \* <<>> or <<record of the most recent adapter call>>
    firstResult,  \* id -> <<>> or <<outcome of the first adapter call on it>>
    callsOn,      \* id -> number of adapter calls made on it
    log,          \* the log records handled so far, oldest first
    loggers,      \* logging.Logger.manager.loggerDict: name -> entry
    lastLevel,    \* name -> <<>> or <<level argument of the latest factory call>>
    recreated     \* name -> the factory was called on an already configured logger

vars == <<tools, last, firstResult, callsOn, log, loggers, lastLevel, recreated>>

----------------------------------------------------------------------------
(* utils.py / env.py: logging *)

LoggerNames == {"ml_agents", "ml_agents.utils", "ml_agents.compat"}

\* The logging module's numeric levels, as named in level_to_int_map.
level_to_int_map ==
    [debug |-> 10, info |-> 20, warning |-> 30, error |-> 40, critical |-> 50]

\* str.lower() on the level names that are enumerated.
Lower(s) ==
    CASE s \in {"debug", "DEBUG", "Debug"} -> "debug"
      [] s \in {"info", "INFO"} -> "info"
      [] s \in {"warning", "WARNING"} -> "warning"
      [] s \in {"error", "ERROR", "Error"} -> "error"
      [] s \in {"critical", "CRITICAL"} -> "critical"

\* str.upper() on the values of the LOG_LEVEL environment variable.
Upper(s) ==
    CASE s \in {"debug", "DEBUG", "Debug"} -> "DEBUG"
      [] s \in {"info", "INFO"} -> "INFO"
      [] s \in {"warning", "WARNING"} -> "WARNING"
      [] s \in {"error", "ERROR", "Error"} -> "ERROR"
      [] s \in {"critical", "CRITICAL"} -> "CRITICAL"

\* A level argument is a str or an int.
StrLevel(s) == [type |-> "str", str |-> s, int |-> 0]
IntLevel(n) == [type |-> "int", str |-> "", int |-> n]

\* The level arguments the factory is called with.
LevelArgs ==
    {StrLevel("debug"), StrLevel("WARNING"), StrLevel("Error"),
     IntLevel(level_to_int_map.info), IntLevel(level_to_int_map.critical)}

\* The values of the LOG_LEVEL environment variable: unset, or a level name.
EnvLogLevels == {<<>>, <<"debug">>, <<"INFO">>, <<"Error">>, <<"critical">>}

\* env.LOG_LEVEL = os.getenv("LOG_LEVEL", "warning").upper()
LOG_LEVEL(env) == StrLevel(Upper(IF env = <<>> THEN "warning" ELSE env[1]))

\* if isinstance(level, str): level = level_to_int_map[level.lower()]
LevelInt(level) ==
    IF level.type = "str" THEN level_to_int_map[Lower(level.str)] ELSE level.int

NoLogger == [kind |-> "absent", level |-> 0, handlers |-> <<>>, local |-> FALSE]

\* The logger dictionary before any module of the package is imported.
EmptyManager == [n \in LoggerNames |-> NoLogger]

\* The dotted-name parent of a logger name ("" is the root logger).
ParentName(name) == IF name = "ml_agents" THEN "" ELSE "ml_agents"

\* logging.getLogger(name): the existing logger, or a new one with level
\* NOTSET and no handlers; an absent parent becomes a PlaceHolder.
getLogger(lg, name) ==
    LET made == IF lg[name].kind = "Logger"
                THEN lg
                ELSE [lg EXCEPT ![name] =
                        [kind |-> "Logger", level |-> 0,
                         handlers |-> <<>>, local |-> FALSE]]
        p == ParentName(name)
    IN  IF p # "" /\ made[p].kind = "absent"
        THEN [made EXCEPT ![p].kind = "PlaceHolder"]
        ELSE made

\* Logger.hasHandlers(): this logger or an ancestor Logger has a handler
\* (the root logger has none: nothing in the package configures it).
hasHandlers(lg, name) ==
    \/ lg[name].handlers # <<>>
    \/ /\ ParentName(name) # ""
       /\ lg[ParentName(name)].kind = "Logger"
       /\ lg[ParentName(name)].handlers # <<>>

\* handler = logging.StreamHandler(); handler.setLevel(level)
StreamHandler(level) == [kind |-> "StreamHandler", level |-> level]

\* Mutant of ClearedHandlers: the existing handlers are kept.
KeptHandlers(lg, name) == lg[name].handlers

\* if logger.hasHandlers(): logger.handlers.clear()
ClearedHandlers(lg, name) ==
    IF hasHandlers(lg, name) THEN <<>> ELSE lg[name].handlers

\* set_logger_level_to_all_local(level)
set_logger_level_to_all_local(lg, level) ==
    [n \in LoggerNames |->
        IF lg[n].kind = "Logger" /\ lg[n].local
        THEN [lg[n] EXCEPT !.level = LevelInt(level)]
        ELSE lg[n]]

\* create_simple_logger(logger_name, level, set_level_to_all_loggers): the
\* logger dictionary it leaves behind.
create_simple_logger(lg, logger_name, level, set_level_to_all_loggers) ==
    LET got == getLogger(lg, logger_name)
        lvl == LevelInt(level)
        configured ==
            [got EXCEPT ![logger_name] =
                [kind |-> "Logger",
                 level |-> lvl,
                 handlers |-> Append(ClearedHandlers(got, logger_name),
                                     StreamHandler(lvl)),
                 local |-> TRUE]]
    IN  IF set_level_to_all_loggers
        THEN set_logger_level_to_all_local(configured, level)
        ELSE configured

\* The logger dictionary once ml_agents.compat is imported: utils.py:85 runs
\* first (compat.py:1 imports it), then compat.py:9.
ImportedLoggers(env) ==
    create_simple_logger(
        create_simple_logger(EmptyManager, "ml_agents.utils", LOG_LEVEL(env), FALSE),
        "ml_agents.compat", LOG_LEVEL(env), FALSE)

\* logger.error(msg) on the logger of compat.py: the records that are handled.
LoggerError(lg, msg) ==
    IF lg["ml_agents.compat"].level <= level_to_int_map.error
    THEN <<[name |-> "ml_agents.compat", levelname |-> "ERROR", msg |-> msg]>>
    ELSE <<>>

CreateSimpleLogger(name, level, setAll) ==
    /\ loggers' = create_simple_logger(loggers, name, level, setAll)
    /\ lastLevel' = [lastLevel EXCEPT ![name] = <<level>>]
    /\ recreated' = [recreated EXCEPT ![name] =
                        @ \/ (loggers[name].kind = "Logger"
                              /\ loggers[name].handlers # <<>>)]
    /\ UNCHANGED <<tools, last, firstResult, callsOn, log>>

----------------------------------------------------------------------------
(* compat.py: the foreign tools *)

ToolIds == {1, 2}

\* Parameter names of the enumerated forward callables.
ParamNames == {"self", "query", "limit"}

\* param.annotation: "empty" is inspect.Parameter.empty.
Annotations == {"empty", "str"}

\* One inspect.Parameter of signature(tool.forward).parameters.
Params == [name : ParamNames, annotation : Annotations, hasDefault : BOOLEAN]

\* signature(tool.forward).parameters: ordered, the names distinct.
Signatures ==
    {s \in UNION {[1..n -> Params] : n \in 0..MaxParams} :
        \A i, j \in DOMAIN s : s[i].name = s[j].name => i = j}

\* The forward attribute: absent, a value that is not callable, or a callable.
Forwards(ref) ==
    {[kind |-> "absent", ref |-> ref, params |-> <<>>],
     [kind |-> "noncallable", ref |-> ref, params |-> <<>>]}
    \cup {[kind |-> "callable", ref |-> ref, params |-> s] : s \in Signatures}

\* inputs[name]["description"] of the enumerated tools.
DescriptionOf(name) ==
    CASE name = "query" -> "search text"
      [] name = "limit" -> "max results"
      [] OTHER -> "receiver"

\* tool.inputs with the given keys.
InputsWith(keys) == [k \in keys |-> [description |-> DescriptionOf(k)]]

\* The foreign tool objects under study: name optional, forward of any kind,
\* inputs covering any subset of the parameter names.
Tools ==
    {[name |-> n, description |-> "Web search", forward |-> f, inputs |-> InputsWith(k)] :
        n \in {<<>>, <<"search">>},
        f \in Forwards("search.forward"),
        k \in SUBSET {"query", "limit"}}

\* The other foreign tools adapted alongside: a well-formed one and one
\* without a forward attribute.
OtherTools ==
    {[name |-> <<"calc">>, description |-> "Calculator",
      forward |-> [kind |-> "callable", ref |-> "calc.forward",
                   params |-> <<[name |-> "self", annotation |-> "empty", hasDefault |-> FALSE],
                                [name |-> "limit", annotation |-> "str", hasDefault |-> FALSE]>>],
      inputs |-> InputsWith({"limit"})],
     [name |-> <<"calc">>, description |-> "Calculator",
      forward |-> [kind |-> "absent", ref |-> "calc.forward", params |-> <<>>],
      inputs |-> InputsWith({})]}

----------------------------------------------------------------------------
(* compat.py: create_tool_from_smolagents *)

Msg == "The provided tool must have a callable 'forward' attribute."

Raise(exc, arg) == [kind |-> "raise", exc |-> exc, arg |-> arg, value |-> <<>>]
Return(v) == [kind |-> "return", exc |-> "", arg |-> "", value |-> <<v>>]

\* hasattr(tool, "forward")
HasForward(tool) == tool.forward.kind # "absent"

\* Mutant of ArgsFieldsInit: the dict of the previous call is reused (a
\* module-level or default-argument dict).
ArgsFieldsShared ==
    IF last # <<>> /\ last[1].outcome.kind = "return"
    THEN last[1].outcome.value[1].args_schema.fields
    ELSE <<>>

\* args_fields = {}
ArgsFieldsInit == <<>>

\* Mutant of FieldInfo: a default of the foreign parameter is carried over.
FieldInfoWithDefault(param, inputs) ==
    [default |-> IF param.hasDefault THEN "param.default" ELSE "...",
     description |-> inputs[param.name].description]

\* Field(default=..., description=inputs[name]["description"])
FieldInfo(param, inputs) ==
    [default |-> "...", description |-> inputs[param.name].description]

\* param.annotation if param.annotation != param.empty else Any
ParamAnnotation(param) ==
    IF param.annotation # "empty" THEN param.annotation ELSE "Any"

\* args_fields[name] = value: a dict keeps the position of an existing key.
DictSet(d, name, value) ==
    IF \E i \in DOMAIN d : d[i].name = name
    THEN [i \in DOMAIN d |-> IF d[i].name = name THEN value ELSE d[i]]
    ELSE Append(d, value)

\* The loop over annotations.items(), from the i-th parameter on: the
\* KeyError of the first parameter without an inputs entry, or the fields.
RECURSIVE LoopParams(_, _, _, _)
LoopParams(params, inputs, i, args_fields) ==
    IF i > Len(params)
    THEN [raised |-> <<>>, args_fields |-> args_fields]
    ELSE IF params[i].name = "self"
    THEN LoopParams(params, inputs, i + 1, args_fields)
    ELSE IF params[i].name \notin DOMAIN inputs
    THEN [raised |-> <<params[i].name>>, args_fields |-> args_fields]
    ELSE LoopParams(params, inputs, i + 1,
            DictSet(args_fields, params[i].name,
                    [name |-> params[i].name,
                     annotation |-> ParamAnnotation(params[i]),
                     field_info |-> FieldInfo(params[i], inputs)]))

\* create_model(f"{tool.name}Input", **args_fields), and with __base__=BaseModel
\* when args_fields is empty: a subclass of BaseModel with these fields.
create_model(model_name, args_fields) ==
    [name |-> model_name, base |-> "BaseModel", fields |-> args_fields]

\* Mutant of ToolFunc: the callable is wrapped.
ToolFuncWrapped(tool) == [tool.forward EXCEPT !.ref = "wrapper"]

\* func=tool.forward
ToolFunc(tool) == tool.forward

\* getattr(tool, "name", "Unnamed Tool")
ToolName(tool) == IF tool.name # <<>> THEN tool.name[1] ELSE "Unnamed Tool"

\* The call create_tool_from_smolagents(tool) with the logger dictionary lg:
\* its outcome and the log records it has handled.
create_tool_from_smolagents(tool, lg) ==
    IF ~HasForward(tool)
    THEN [logged |-> LoggerError(lg, Msg), outcome |-> Raise("ValueError", Msg)]
    ELSE IF tool.forward.kind # "callable"
    THEN [logged |-> <<>>, outcome |-> Raise("TypeError", "not a callable object")]
    ELSE LET loop == LoopParams(tool.forward.params, tool.inputs, 1, ArgsFieldsInit)
         IN  IF loop.raised # <<>>
             THEN [logged |-> <<>>, outcome |-> Raise("KeyError", loop.raised[1])]
             ELSE IF tool.name = <<>>
             THEN [logged |-> <<>>, outcome |-> Raise("AttributeError", "name")]
             ELSE [logged |-> <<>>,
                   outcome |-> Return(
                       [name |-> ToolName(tool),
                        description |-> tool.description,
                        func |-> ToolFunc(tool),
                        args_schema |-> create_model(tool.name[1] \o "Input",
                                                     loop.args_fields)])]

TotalCalls == callsOn[1] + callsOn[2]

Adapt(id) ==
    /\ TotalCalls < MaxCalls
    /\ LET r == create_tool_from_smolagents(tools[id], loggers)
       IN  /\ last' = <<[id |-> id,
                         prev |-> IF last = <<>> THEN 0 ELSE last[1].id,
                         arg |-> tools[id],
                         outcome |-> r.outcome,
                         logged |-> r.logged]>>
           /\ log' = log \o r.logged
           /\ firstResult' = IF firstResult[id] = <<>>
                             THEN [firstResult EXCEPT ![id] = <<r.outcome>>]
                             ELSE firstResult
    /\ callsOn' = [callsOn EXCEPT ![id] = @ + 1]
    /\ UNCHANGED <<tools, loggers, lastLevel, recreated>>

----------------------------------------------------------------------------
(* Specifications *)

\* A tool that stands in the logger specification, where no tool is adapted.
SampleTool ==
    [name |-> <<"search">>, description |-> "Web search",
     forward |-> [kind |-> "callable", ref |-> "search.forward",
                  params |-> <<[name |-> "query", annotation |-> "str", hasDefault |-> FALSE]>>],
     inputs |-> InputsWith({"query"})]

InitCalls ==
    /\ last = <<>>
    /\ firstResult = [i \in ToolIds |-> <<>>]
    /\ callsOn = [i \in ToolIds |-> 0]
    /\ log = <<>>

InitLoggers(env) ==
    /\ loggers = ImportedLoggers(env)
    /\ lastLevel = [n \in LoggerNames |->
                      IF n = "ml_agents" THEN <<>> ELSE <<LOG_LEVEL(env)>>]
    /\ recreated = [n \in LoggerNames |-> FALSE]

\* The package imported with LOG_LEVEL unset; any two foreign tool objects.
Init ==
    /\ tools \in {t \in [ToolIds -> Tools \cup OtherTools] :
                    t[1] \in Tools /\ t[2] \in OtherTools}
    /\ InitCalls
    /\ InitLoggers(<<>>)

Next == \E id \in ToolIds : Adapt(id)

Spec == Init /\ [][Next]_vars

\* The package imported under any LOG_LEVEL.
InitLogger ==
    /\ tools = [i \in ToolIds |-> SampleTool]
    /\ InitCalls
    /\ \E env \in EnvLogLevels : InitLoggers(env)

NextLogger ==
    \E name \in LoggerNames, level \in LevelArgs, setAll \in BOOLEAN :
        CreateSimpleLogger(name, level, setAll)

SpecLogger == InitLogger /\ [][NextLogger]_vars

----------------------------------------------------------------------------
(* Properties of create_tool_from_smolagents, stated on the latest call *)

Called == last # <<>>
Arg == last[1].arg
Outcome == last[1].outcome
Returned == Called /\ Outcome.kind = "return"
Schema == Outcome.value[1].args_schema

\* The parameters of forward other than "self", in declaration order.
EligibleParams(tool) == SelectSeq(tool.forward.params, LAMBDA p : p.name # "self")

\* Every parameter other than "self" has an entry in inputs.
InputsCover(tool) ==
    \A i \in DOMAIN EligibleParams(tool) :
        EligibleParams(tool)[i].name \in DOMAIN tool.inputs

\* A schema field is required when its default is the Ellipsis marker.
Required(field) == field.field_info.default = "..."

\* The exception classes of the error taxonomy: the missing-callable failure is
\* raised as ValueError (compat.py:33); no class of the package is a SchemaError.
MissingCapabilityError == "ValueError"
SchemaError == "SchemaError"

\* C1: a tool whose forward is callable with N parameters other than "self",
\* each with an inputs entry, is adapted into a tool whose args_schema has
\* exactly N fields, all required, named as the parameters, in their order.
C1_SchemaMirrorsParameters ==
    (Called /\ Arg.forward.kind = "callable" /\ InputsCover(Arg)) =>
        /\ Outcome.kind = "return"
        /\ Len(Schema.fields) = Len(EligibleParams(Arg))
        /\ \A i \in DOMAIN Schema.fields :
              /\ Schema.fields[i].name = EligibleParams(Arg)[i].name
              /\ Required(Schema.fields[i])

\* C2: when forward is absent, or present but not callable, the call raises
\* MissingCapabilityError, handles one ERROR log record and returns no tool.
C2_MissingCallableFails ==
    (Called /\ Arg.forward.kind \in {"absent", "noncallable"}) =>
        /\ Outcome.kind = "raise"
        /\ Outcome.exc = MissingCapabilityError
        /\ Outcome.value = <<>>
        /\ Len(last[1].logged) = 1
        /\ last[1].logged[1].levelname = "ERROR"

\* C3: when a parameter other than "self" has no key in inputs, the call
\* raises SchemaError naming such a parameter and returns no tool.
C3_MissingMetadataIsSchemaError ==
    (Called /\ Arg.forward.kind = "callable" /\ ~InputsCover(Arg)) =>
        /\ Outcome.kind = "raise"
        /\ Outcome.exc = SchemaError
        /\ \E i \in DOMAIN EligibleParams(Arg) :
              /\ EligibleParams(Arg)[i].name = Outcome.arg
              /\ Outcome.arg \notin DOMAIN Arg.inputs
        /\ Outcome.value = <<>>

\* C4: a tool with a callable forward, a description and inputs but no name
\* attribute is adapted into a tool named "Unnamed Tool".
C4_UnnamedToolDefault ==
    (Called /\ Arg.forward.kind = "callable" /\ InputsCover(Arg) /\ Arg.name = <<>>) =>
        /\ Outcome.kind = "return"
        /\ Outcome.value[1].name = "Unnamed Tool"

\* C5: a tool whose forward has no parameter other than "self" still gets an
\* args_schema: a BaseModel subclass without fields, named <tool name>Input.
C5_EmptySchemaStillBuilt ==
    (Called /\ Arg.forward.kind = "callable" /\ EligibleParams(Arg) = <<>>) =>
        /\ Outcome.kind = "return"
        /\ Schema.fields = <<>>
        /\ Schema.base = "BaseModel"
        /\ Arg.name # <<>>
        /\ Schema.name = Arg.name[1] \o "Input"

C7_LogOnlyOnMissingCallable ==
    Called =>
        /\ IF Arg.forward.kind \in {"absent", "noncallable"}
           THEN Len(last[1].logged) = 1 /\ last[1].logged[1].levelname = "ERROR"
           ELSE last[1].logged = <<>>
        /\ tools[last[1].id] = Arg
        /\ loggers = ImportedLoggers(<<>>)

C9_FieldsRequiredTypedDescribed ==
    Returned =>
        \A i \in DOMAIN EligibleParams(Arg) :
            LET p == EligibleParams(Arg)[i]
            IN  \E j \in DOMAIN Schema.fields :
                    /\ Schema.fields[j].name = p.name
                    /\ Required(Schema.fields[j])
                    /\ Schema.fields[j].annotation =
                          (IF p.annotation = "empty" THEN "Any" ELSE p.annotation)
                    /\ Schema.fields[j].field_info.description =
                          Arg.inputs[p.name].description

\* A tool was returned for a forward with an unannotated parameter that has a
\* default and an annotated one that has none.
C9_Witness ==
    /\ Returned
    /\ \E i, j \in DOMAIN EligibleParams(Arg) :
          /\ EligibleParams(Arg)[i].hasDefault
          /\ EligibleParams(Arg)[i].annotation = "empty"
          /\ ~EligibleParams(Arg)[j].hasDefault
          /\ EligibleParams(Arg)[j].annotation # "empty"

----------------------------------------------------------------------------
(* Properties of create_simple_logger *)

\* The numeric level a level argument stands for.
ExpectedLevel(level) ==
    IF level.type = "int" THEN level.int
    ELSE CASE level.str \in {"debug", "DEBUG"} -> 10
           [] level.str \in {"INFO"} -> 20
           [] level.str \in {"WARNING"} -> 30
           [] level.str \in {"Error", "ERROR"} -> 40
           [] level.str \in {"CRITICAL"} -> 50

\* C10: every logger the factory has returned has exactly one handler, a
\* StreamHandler, at the level of the latest factory call for its name.
C10_SingleConsoleHandler ==
    \A n \in LoggerNames :
        (loggers[n].kind = "Logger" /\ loggers[n].local) =>
            /\ lastLevel[n] # <<>>
            /\ Len(loggers[n].handlers) = 1
            /\ loggers[n].handlers[1].kind = "StreamHandler"
            /\ loggers[n].handlers[1].level = ExpectedLevel(lastLevel[n][1])

\* A logger configured again, whose own level has since been changed by a
\* call for another name with set_level_to_all_loggers.
C10_Witness ==
    \E n \in LoggerNames :
        /\ recreated[n]
        /\ loggers[n].handlers # <<>>
        /\ loggers[n].level # loggers[n].handlers[1].level
        /\ loggers["ml_agents"].kind = "Logger"

====
